---- MODULE Spec2Model ----
(***************************************************************************)
(* Model of the document-folder watcher of src/fastapi/chatbot/watcher.py: *)
(* the ./docs tree, the watchdog observer thread, the debounce timers      *)
(* (threading.Timer), the timer threads running upload_and_link, the       *)
(* in-memory `state`, the persisted .vs_state.json, the .staging directory *)
(* and the remote file / vector-store objects; of the event handlers of    *)
(* its sibling src/fastapi/chatbot/vs.py; and of the session memory of     *)
(* src/fastapi/chatbot/chatbot.py (SESSIONS, add_turn, reset).             *)
(***************************************************************************)
EXTENDS Integers, Sequences, FiniteSets, TLC

(* ------------------------------ bounds -------------------------------- *)
\* timers (threading.Timer objects) followed at once: armed, running, or
\* dead (finished or cancelled) and still referenced by _timers
MaxTimers == 2
\* filesystem operations performed by the environment
MaxFsOps == 2
\* calls that fail: remote calls, writes of .vs_state.json
MaxFails == 1
\* filesystem events waiting for the observer thread
MaxQueue == 1
\* times the process is killed
MaxCrashes == 1

\* turns added to one session between two resets
MaxMsgs == 43

(* --------------------------- program constants ------------------------ *)
\* chatbot.py: MAX_TURNS = 20
MAX_TURNS == 20

\* safe_copy_to_staging: `if tries > 10: raise`
MaxCopyRetries == 10

\* ONLY_MOVE_CREATE = True; watcher.py assigns it and reads it nowhere
ONLY_MOVE_CREATE == TRUE

(* ------------------------------ strings ------------------------------- *)
\* A file name is a sequence of characters, so that startswith, suffix and
\* lower are computed as pathlib / str compute them.
Uppers == <<"A", "B", "C", "D", "E", "F", "G", "H", "I", "J", "K", "L", "M",
            "N", "O", "P", "Q", "R", "S", "T", "U", "V", "W", "X", "Y", "Z">>
Lowers == <<"a", "b", "c", "d", "e", "f", "g", "h", "i", "j", "k", "l", "m",
            "n", "o", "p", "q", "r", "s", "t", "u", "v", "w", "x", "y", "z">>

LowerChar(c) ==
    IF \E i \in 1..26 : Uppers[i] = c
    THEN Lowers[CHOOSE i \in 1..26 : Uppers[i] = c]
    ELSE c

\* str.lower()
Lower(s) == [i \in 1..Len(s) |-> LowerChar(s[i])]

\* str.startswith(prefix)
StartsWith(s, pre) == Len(s) >= Len(pre) /\ SubSeq(s, 1, Len(pre)) = pre

\* index of the last "." of s, 0 when there is none (str.rfind, 1-based)
LastDot(s) ==
    IF \E i \in 1..Len(s) : s[i] = "."
    THEN CHOOSE i \in 1..Len(s) : s[i] = "." /\ \A j \in (i+1)..Len(s) : s[j] # "."
    ELSE 0

\* PurePath.suffix: the last dot-component of the name, "" when the name has
\* no dot, starts with its only dot or ends with a dot
Suffix(name) ==
    LET i == LastDot(name)
    IN  IF 1 < i /\ i < Len(name) THEN SubSeq(name, i, Len(name)) ELSE <<>>

\* PurePath.stem: the name without its suffix
Stem(name) ==
    LET i == LastDot(name)
    IN  IF 1 < i /\ i < Len(name) THEN SubSeq(name, 1, i - 1) ELSE name

(* ------------------------------- paths -------------------------------- *)
\* The files of the watched tree that the model follows: docs/a.pdf,
\* docs/sub/B.PDF, docs/sub/a.pdf, two lock files and docs/a.exe.
Paths == {"a", "b", "c", "lk", "lt", "x"}

PathDir(p) == IF p \in {"b", "c"} THEN <<"docs", "sub">> ELSE <<"docs">>

PathName(p) ==
    CASE p = "a"  -> <<"a", ".", "p", "d", "f">>
      [] p = "b"  -> <<"B", ".", "P", "D", "F">>
      [] p = "c"  -> <<"a", ".", "p", "d", "f">>
      [] p = "lk" -> <<"~", "$", "a", ".", "d", "o", "c", "x">>
      [] p = "lt" -> <<"~", "$", "r", ".", "d", "o", "c", "x", ".", "t", "m", "p">>
      [] p = "x"  -> <<"a", ".", "e", "x", "e">>

ALLOW_EXTS == { <<".", "p", "d", "f">>, <<".", "d", "o", "c", "x">>,
                <<".", "p", "p", "t", "x">>, <<".", "x", "l", "s", "x">>,
                <<".", "t", "x", "t">>, <<".", "m", "d">> }
LOCK_PREFIXES == { <<"~", "$">> }
LOCK_SUFFIXES == { <<".", "t", "m", "p">>, <<".", "p", "a", "r", "t">>,
                   <<".", "l", "o", "c", "k">> }

is_lock_like(p) ==
    \/ \E pre \in LOCK_PREFIXES : StartsWith(PathName(p), pre)
    \/ Lower(Suffix(PathName(p))) \in LOCK_SUFFIXES

\* (mutant) the extension test without the lock-file test
Qualifies_ExtOnly(p) == Lower(Suffix(PathName(p))) \in ALLOW_EXTS

\* the test every handler, the scan and upload_and_link apply to a path
Qualifies(p) == Lower(Suffix(PathName(p))) \in ALLOW_EXTS /\ ~is_lock_like(p)

\* str(p.resolve()).lower() of every followed path (computed once)
KeyOf == [p \in Paths |-> <<PathDir(p), Lower(PathName(p))>>]

\* file_key: str(p.resolve()).lower()
file_key(p) == KeyOf[p]

Keys == { file_key(p) : p \in Paths }

\* STAGING_DIR / f"{src.stem}__staging{src.suffix}" of every followed path
\* (computed once)
StagingOf ==
    [p \in Paths |-> Stem(PathName(p)) \o <<"_", "_", "s", "t", "a", "g", "i", "n", "g">>
                       \o Suffix(PathName(p))]

\* safe_copy_to_staging: the staged file's name
StagingName(p) == StagingOf[p]

StagingNames == { StagingName(p) : p \in Paths }

\* the session ids the clients of chatbot.py send
SessionIds == {"s1", "s2"}

(* ------------------------------ contents ------------------------------ *)
\* file contents; 0 stands for "no such file"
Contents == {1, 2}
Absent == 0

\* st_size of a content: two contents may have the same size
SizeOf(d) == 1

\* stable_hash: sha256 of the bytes, distinct for distinct contents
stable_hash(d) == <<"sha256", d>>

(* ------------------------------- state -------------------------------- *)
\* Thread 0 is the main thread during initial_scan and the watchdog observer
\* thread afterwards (obs.start() follows initial_scan(), so the two never
\* overlap); thread i in 1..MaxTimers is the thread of the Timer in slot i.
\* A finished or cancelled Timer that _timers no longer references is
\* garbage: its slot is "none" again and takes the next Timer.
Timers == 1..MaxTimers
Threads == 0..MaxTimers

\* rglob's order over the followed paths
ScanOrder == <<"a", "b", "c", "lk", "lt", "x">>

VARIABLES
    fs,        \* ./docs: path -> [data, mtime], data = Absent when no file
               \* (mtime then keeps the last file's, so that a later file at
               \* the path has a later st_mtime)
    nops,      \* filesystem operations so far
    events,    \* watchdog's queue of events for the observer thread
    state,     \* the module global `state`: [vector_store_id, files], files a dict
    disk,      \* the text of .vs_state.json, as the dict it encodes
    staging,   \* .staging: staged name -> data, Absent when no file
    objs,      \* remote file objects: file id -> [data, name] as uploaded
    attached,  \* file ids linked to the vector store
    nfail,     \* calls (remote, or the write of .vs_state.json) that failed so far
    _timers,   \* the module global `_timers`: key -> timer id, 0 when none
    pc,        \* thread -> position in its code
    loc,       \* thread -> its local variables, and `log`: the remote calls
               \* the thread made in its current call, in order
    scanpos,   \* initial_scan: index into ScanOrder of the next entry
    vsfile,    \* the text of .vector_store_id, NoVsFile when no file
    stores,    \* vector stores created at the remote service so far
    crashes,   \* times the process was killed so far
    SESSIONS,  \* chatbot.py's module global SESSIONS: session id -> list of turns
    sent       \* session id -> turns its client has sent since the last reset

\* the variables of the watcher
watcherVars == <<fs, nops, events, state, disk, staging, objs, attached,
                 nfail, _timers, pc, loc, scanpos, vsfile, stores, crashes>>

vars == <<watcherVars, SESSIONS, sent>>

\* an empty dict
EmptyDict == [k \in {} |-> 0]

\* dict.get(key, {}) / dict.get(key): None is the empty dict here
DictGet(d, k) == IF k \in DOMAIN d THEN d[k] ELSE EmptyDict

\* d[key] = v
DictSet(d, k, v) == [j \in (DOMAIN d) \cup {k} |-> IF j = k THEN v ELSE d[j]]

\* d.pop(key, None)
DictPop(d, k) == [j \in (DOMAIN d) \ {k} |-> d[j]]

\* old.get("hash"), old.get("file_id"): None is 0 and <<>> here
RecHash(r) == IF r = EmptyDict THEN <<>> ELSE r.hash
RecFileId(r) == IF r = EmptyDict THEN 0 ELSE r.file_id

\* the locals of a thread that is not inside a call
NoLocals == [path |-> "-", s1 |-> <<>>, h |-> <<>>, old |-> EmptyDict,
             fobj |-> 0, tries |-> 0, snap |-> EmptyDict, log |-> <<>>]

\* (st_size, st_mtime) of an existing file
Stat(f) == <<SizeOf(f.data), f.mtime>>

NoFile == [data |-> Absent, mtime |-> 0]

\* vs.id of the n-th vector store the remote service creates
VsId(n) == <<"vs", n>>

\* no .vector_store_id file
NoVsFile == <<>>

\* load_state when there is no .vs_state.json
DefaultState == [vector_store_id |-> <<"None">>, files |-> EmptyDict]

\* no .vs_state.json file
NoStateFile == [vector_store_id |-> <<"no file">>, files |-> EmptyDict]

\* a .vs_state.json whose text json.loads rejects (an empty or cut-off file)
CorruptStateFile == [vector_store_id |-> <<"corrupt">>, files |-> EmptyDict]

\* load_state on a fresh directory, then ensure_vector_store, which creates
\* the vector store, records its id and saves the state
FreshState == [vector_store_id |-> VsId(1), files |-> EmptyDict]

\* a file that was written before the watcher started
OldFile == [data |-> 1, mtime |-> 1]

\* the documents the tree may hold when the watcher starts: none, or a.pdf
InitialFiles == { [p \in Paths |-> NoFile],
                  [p \in Paths |-> IF p = "a" THEN OldFile ELSE NoFile] }

\* a tree that holds a.pdf and the three files that do not qualify
InitialTree == [p \in Paths |-> IF p \in {"b", "c"} THEN NoFile ELSE OldFile]

\* a file with other bytes that was written before the watcher started
OtherFile == [data |-> 2, mtime |-> 1]

\* a tree that holds two documents of the same name, docs/a.pdf and
\* docs/sub/a.pdf, with different bytes
InitialPair ==
    [p \in Paths |-> IF p = "a" THEN OldFile ELSE IF p = "c" THEN OtherFile ELSE NoFile]

\* the state when the module has been imported and __main__ starts
Started ==
    /\ nops = 0
    /\ events = <<>>
    /\ state = FreshState
    /\ disk = FreshState
    /\ staging = [n \in StagingNames |-> Absent]
    /\ objs = EmptyDict
    /\ attached = {}
    /\ nfail = 0
    /\ _timers = [k \in Keys |-> 0]
    /\ pc = [i \in Threads |-> IF i = 0 THEN "scan" ELSE "none"]
    /\ loc = [i \in Threads |-> NoLocals]
    /\ scanpos = 1
    /\ vsfile = VsId(1)
    /\ stores = 1
    /\ crashes = 0
    /\ SESSIONS = EmptyDict
    /\ sent = [sid \in SessionIds |-> 0]

Init == fs \in InitialFiles /\ Started

\* the state when __main__ found an empty tree and has started the observer
InitWatch ==
    /\ fs = [p \in Paths |-> NoFile]
    /\ nops = 0
    /\ events = <<>>
    /\ state = FreshState
    /\ disk = FreshState
    /\ staging = [n \in StagingNames |-> Absent]
    /\ objs = EmptyDict
    /\ attached = {}
    /\ nfail = 0
    /\ _timers = [k \in Keys |-> 0]
    /\ pc = [i \in Threads |-> IF i = 0 THEN "idle" ELSE "none"]
    /\ loc = [i \in Threads |-> NoLocals]
    /\ scanpos = Len(ScanOrder) + 1
    /\ vsfile = VsId(1)
    /\ stores = 1
    /\ crashes = 0
    /\ SESSIONS = EmptyDict
    /\ sent = [sid \in SessionIds |-> 0]

InitTree == fs = InitialTree /\ Started

InitPair == fs = InitialPair /\ Started

(* ---------------------------- environment ----------------------------- *)
\* The observer delivers events only once obs.start() has run.
Watching == pc[0] \in {"idle", "sarm", "r_delete", "r_pop", "r_save", "r_write"}

Emit(ev) == IF Watching THEN Append(events, ev) ELSE events

FsGuard == nops < MaxFsOps /\ (Watching => Len(events) < MaxQueue)

\* a process writes file p (creating it when absent)
FsWrite(p, d) ==
    /\ FsGuard
    /\ fs' = [fs EXCEPT ![p] = [data |-> d, mtime |-> fs[p].mtime + 1]]
    /\ nops' = nops + 1
    /\ events' = Emit([kind |-> IF fs[p].data = Absent THEN "created" ELSE "modified",
                       path |-> p])
    /\ UNCHANGED <<SESSIONS, sent, vsfile, stores, crashes, state, disk, staging, objs, attached, nfail, _timers,
                   pc, loc, scanpos>>

\* a process creates file p
FsCreate(p, d) == fs[p].data = Absent /\ FsWrite(p, d)

\* a process removes file p
FsDelete(p) ==
    /\ FsGuard
    /\ fs[p].data # Absent
    /\ fs' = [fs EXCEPT ![p].data = Absent]
    /\ nops' = nops + 1
    /\ events' = Emit([kind |-> "deleted", path |-> p])
    /\ UNCHANGED <<SESSIONS, sent, vsfile, stores, crashes, state, disk, staging, objs, attached, nfail, _timers,
                   pc, loc, scanpos>>

\* a process renames file p to q inside the tree (event.dest_path = q)
FsMove(p, q) ==
    /\ FsGuard
    /\ p # q
    /\ fs[p].data # Absent
    /\ fs' = [fs EXCEPT ![q] = [data |-> fs[p].data, mtime |-> fs[q].mtime + 1],
                        ![p].data = Absent]
    /\ nops' = nops + 1
    /\ events' = Emit([kind |-> "moved", path |-> q])
    /\ UNCHANGED <<SESSIONS, sent, vsfile, stores, crashes, state, disk, staging, objs, attached, nfail, _timers,
                   pc, loc, scanpos>>

(* --------------------------- schedule_upload -------------------------- *)
\* Timer.cancel(): a timer that has not fired yet never will; cancelling a
\* timer that fired or finished changes nothing
CancelTimer(pcs, t) ==
    IF t # 0 /\ pcs[t] = "armed" THEN [pcs EXCEPT ![t] = "cancelled"] ELSE pcs

\* a timer whose thread ended or that was cancelled
Dead(pcs, t) == t # 0 /\ pcs[t] \in {"done", "cancelled"}

\* the slots a new Timer for key k can take: the unused ones, and the slot of
\* the dead timer that the assignment to _timers[k] unreferences; when there
\* is none of these, the slot of a dead timer of another key (cancel() on a
\* dead timer does nothing, so that key's entry is as good as absent)
FreeSlots(k) ==
    LET own == {i \in Timers : pc[i] = "none"} \cup
               (IF Dead(pc, _timers[k]) THEN {_timers[k]} ELSE {})
    IN  IF own # {} THEN own ELSE {i \in Timers : Dead(pc, i)}

Min(S) == CHOOSE x \in S : \A y \in S : x <= y

\* t = _timers.get(key); if t: t.cancel()   -- by thread c, for path p
SchedCancel(c, p) ==
    /\ pc' = [CancelTimer(pc, _timers[file_key(p)]) EXCEPT
                 ![c] = IF pc[c] = "scan" THEN "scan_arm" ELSE "sarm"]
    /\ loc' = [loc EXCEPT ![c] = [NoLocals EXCEPT !.path = p]]

\* timer = Timer(...); _timers[key] = timer; timer.start()
\* after which schedule_upload and its caller return
SchedArm(c) ==
    /\ pc[c] \in {"sarm", "scan_arm"}
    /\ LET k == file_key(loc[c].path)
           t == _timers[k]
       IN  /\ FreeSlots(k) # {}
           /\ LET n == Min(FreeSlots(k))
                   \* the caller returns; the replaced timer, when dead, is garbage
                   pc1 == [pc EXCEPT ![c] = IF c # 0 THEN "none"
                                           ELSE IF pc[c] = "scan_arm" THEN "scan"
                                           ELSE "idle"]
                   pc2 == IF Dead(pc, t) THEN [pc1 EXCEPT ![t] = "none"] ELSE pc1
               IN  /\ _timers' = [j \in Keys |-> IF j = k THEN n
                                                ELSE IF _timers[j] = n THEN 0
                                                ELSE _timers[j]]
                   /\ pc' = [pc2 EXCEPT ![n] = "armed"]
                   /\ loc' = [loc EXCEPT ![c] = NoLocals,
                                         ![n] = [NoLocals EXCEPT !.path = loc[c].path]]
    /\ UNCHANGED <<SESSIONS, sent, vsfile, stores, crashes, fs, nops, events, state, disk, staging, objs, attached, nfail, scanpos>>

(* ------------------------- main / observer thread --------------------- *)
\* (mutant) initial_scan walks the tree and schedules nothing
ScanNext_NoSchedule ==
    /\ pc[0] = "scan"
    /\ scanpos <= Len(ScanOrder)
    /\ scanpos' = scanpos + 1
    /\ UNCHANGED <<SESSIONS, sent, vsfile, stores, crashes, fs, nops, events, state, disk, staging,
                   objs, attached, nfail, _timers, pc, loc>>

\* initial_scan: the next entry of rglob; a qualifying file is scheduled
ScanNext ==
    /\ pc[0] = "scan"
    /\ scanpos <= Len(ScanOrder)
    /\ scanpos' = scanpos + 1
    /\ LET p == ScanOrder[scanpos]
       IN  IF fs[p].data # Absent /\ Qualifies(p)
           THEN SchedCancel(0, p)
           ELSE UNCHANGED <<pc, loc>>
    /\ UNCHANGED <<SESSIONS, sent, vsfile, stores, crashes, fs, nops, events, state, disk, staging, objs, attached, nfail, _timers>>

\* initial_scan returned: obs.schedule(...); obs.start()
ObserverStart ==
    /\ pc[0] = "scan"
    /\ scanpos > Len(ScanOrder)
    /\ pc' = [pc EXCEPT ![0] = "idle"]
    /\ UNCHANGED <<SESSIONS, sent, vsfile, stores, crashes, fs, nops, events, state, disk, staging, objs, attached, nfail, _timers, loc, scanpos>>

\* on_created, on_moved (p is event.dest_path), on_modified
OnUpsert ==
    /\ pc[0] = "idle"
    /\ events # <<>>
    /\ Head(events).kind \in {"created", "moved", "modified"}
    /\ events' = Tail(events)
    /\ LET p == Head(events).path
       IN  IF Qualifies(p)
           THEN SchedCancel(0, p)
           ELSE UNCHANGED <<pc, loc>>
    /\ UNCHANGED <<SESSIONS, sent, vsfile, stores, crashes, fs, nops, state, disk, staging, objs, attached, nfail,
                   _timers, scanpos>>

\* vs.py: ONLY_MOVE_CREATE = True, read by on_modified
vs_ONLY_MOVE_CREATE == TRUE

\* (mutant) vs.py with the flag read by on_moved too
vs_OnUpsert_MovedIgnored ==
    /\ pc[0] = "idle"
    /\ events # <<>>
    /\ Head(events).kind \in {"created", "moved", "modified"}
    /\ events' = Tail(events)
    /\ LET p == Head(events).path
       IN  IF Head(events).kind \in {"modified", "moved"} /\ vs_ONLY_MOVE_CREATE
           THEN UNCHANGED <<pc, loc>>
           ELSE IF Qualifies(p)
                THEN SchedCancel(0, p)
                ELSE UNCHANGED <<pc, loc>>
    /\ UNCHANGED <<SESSIONS, sent, vsfile, stores, crashes, fs, nops, state, disk, staging, objs, attached, nfail,
                   _timers, scanpos>>

\* vs.py: on_created, on_moved (p is event.dest_path), and on_modified, which
\* returns at once when ONLY_MOVE_CREATE is set
vs_OnUpsert ==
    /\ pc[0] = "idle"
    /\ events # <<>>
    /\ Head(events).kind \in {"created", "moved", "modified"}
    /\ events' = Tail(events)
    /\ LET p == Head(events).path
       IN  IF Head(events).kind = "modified" /\ vs_ONLY_MOVE_CREATE
           THEN UNCHANGED <<pc, loc>>
           ELSE IF Qualifies(p)
                THEN SchedCancel(0, p)
                ELSE UNCHANGED <<pc, loc>>
    /\ UNCHANGED <<SESSIONS, sent, vsfile, stores, crashes, fs, nops, state, disk, staging, objs, attached, nfail,
                   _timers, scanpos>>

\* (mutant) remove_from_vector_store without `if not meta: return`
OnDeleted_AlwaysRemoves ==
    /\ pc[0] = "idle"
    /\ events # <<>>
    /\ Head(events).kind = "deleted"
    /\ events' = Tail(events)
    /\ LET p == Head(events).path
           meta == DictGet(state.files, file_key(p))
       IN  IF Qualifies(p)
           THEN /\ pc' = [pc EXCEPT ![0] = "r_delete"]
                /\ loc' = [loc EXCEPT ![0] = [NoLocals EXCEPT !.path = p, !.old = meta]]
           ELSE UNCHANGED <<pc, loc>>
    /\ UNCHANGED <<SESSIONS, sent, vsfile, stores, crashes, fs, nops, state, disk, staging, objs, attached, nfail,
                   _timers, scanpos>>

\* on_deleted -> remove_from_vector_store up to `meta = state["files"].get(key)`
OnDeleted ==
    /\ pc[0] = "idle"
    /\ events # <<>>
    /\ Head(events).kind = "deleted"
    /\ events' = Tail(events)
    /\ LET p == Head(events).path
           meta == DictGet(state.files, file_key(p))
       IN  IF Qualifies(p) /\ meta # EmptyDict
           THEN /\ pc' = [pc EXCEPT ![0] = "r_delete"]
                /\ loc' = [loc EXCEPT ![0] = [NoLocals EXCEPT !.path = p, !.old = meta]]
           ELSE UNCHANGED <<pc, loc>>
    /\ UNCHANGED <<SESSIONS, sent, vsfile, stores, crashes, fs, nops, state, disk, staging, objs, attached, nfail,
                   _timers, scanpos>>

\* a remote call fails (network, service): at most MaxFails times
MayFail == nfail < MaxFails

Call(op, fid, ok) == [op |-> op, fid |-> fid, ok |-> ok]

\* client.vector_stores.files.delete(file_id=fid): the link is removed; the
\* file object itself stays
VsDetach(fid) == attached \ {fid}

\* remove_from_vector_store: the delete call inside try/except
RemoveDelete(ok) ==
    /\ pc[0] = "r_delete"
    /\ ok \/ MayFail
    /\ LET fid == RecFileId(loc[0].old)
       IN  /\ attached' = IF ok THEN VsDetach(fid) ELSE attached
           /\ loc' = [loc EXCEPT ![0].log = Append(@, Call("detach", fid, ok))]
    /\ nfail' = IF ok THEN nfail ELSE nfail + 1
    /\ pc' = [pc EXCEPT ![0] = "r_pop"]
    /\ UNCHANGED <<SESSIONS, sent, vsfile, stores, crashes, fs, nops, events, state, disk, staging, objs, _timers, scanpos>>

\* state["files"].pop(key, None)
RemovePop ==
    /\ pc[0] = "r_pop"
    /\ state' = [state EXCEPT !.files = DictPop(@, file_key(loc[0].path))]
    /\ pc' = [pc EXCEPT ![0] = "r_save"]
    /\ UNCHANGED <<SESSIONS, sent, vsfile, stores, crashes, fs, nops, events, disk, staging, objs, attached, nfail,
                   _timers, loc, scanpos>>

\* save_state: json.dumps(state)
SaveDump(c, next) ==
    /\ loc' = [loc EXCEPT ![c].snap = state]
    /\ pc' = [pc EXCEPT ![c] = next]

\* save_state: STATE_FILE.write_text(text)
SaveWrite(c) == disk' = loc[c].snap

RemoveSave ==
    /\ pc[0] = "r_save"
    /\ SaveDump(0, "r_write")
    /\ UNCHANGED <<SESSIONS, sent, vsfile, stores, crashes, fs, nops, events, state, disk, staging, objs, attached, nfail, _timers, scanpos>>

RemoveWrite ==
    /\ pc[0] = "r_write"
    /\ SaveWrite(0)
    /\ pc' = [pc EXCEPT ![0] = "idle"]
    /\ loc' = [loc EXCEPT ![0] = NoLocals]
    /\ UNCHANGED <<SESSIONS, sent, vsfile, stores, crashes, fs, nops, events, state, staging, objs, attached, nfail,
                   _timers, scanpos>>

(* ------------------------ timer threads: upload_and_link --------------- *)
\* the thread's return (or its death by an uncaught exception)
Return(i) ==
    /\ pc' = [pc EXCEPT ![i] = IF _timers[file_key(loc[i].path)] = i THEN "done" ELSE "none"]
    /\ loc' = [loc EXCEPT ![i] = NoLocals]

Goto(i, next) == pc' = [pc EXCEPT ![i] = next]

\* Timer.run: the interval elapsed and the timer was not cancelled
Fire(i) ==
    /\ pc[i] = "armed"
    /\ Goto(i, "exists")
    /\ UNCHANGED <<SESSIONS, sent, vsfile, stores, crashes, fs, nops, events, state, disk, staging, objs, attached, nfail, _timers, loc, scanpos>>

\* if not path.exists(): return; if the path does not qualify: return
CheckExists(i) ==
    /\ pc[i] = "exists"
    /\ IF fs[loc[i].path].data = Absent \/ ~Qualifies(loc[i].path)
       THEN Return(i)
       ELSE Goto(i, "probe1") /\ UNCHANGED loc
    /\ UNCHANGED <<SESSIONS, sent, vsfile, stores, crashes, fs, nops, events, state, disk, staging, objs, attached, nfail, _timers, scanpos>>

\* is_stable: s1 = (st_size, st_mtime); FileNotFoundError gives False
\* (probe k of the two that upload_and_link makes)
ProbeFirst(i, k) ==
    /\ pc[i] = (IF k = 1 THEN "probe1" ELSE "probe2")
    /\ LET f == fs[loc[i].path]
       IN  IF f.data = Absent
           THEN /\ (IF k = 1 THEN Goto(i, "probe2") ELSE Goto(i, "resched"))
                /\ UNCHANGED loc
           ELSE /\ Goto(i, IF k = 1 THEN "dwell1" ELSE "dwell2")
                /\ loc' = [loc EXCEPT ![i].s1 = Stat(f)]
    /\ UNCHANGED <<SESSIONS, sent, vsfile, stores, crashes, fs, nops, events, state, disk, staging, objs, attached, nfail, _timers, scanpos>>

\* is_stable: after the dwell, s2 = (st_size, st_mtime); return s1 == s2
is_stable(s1, f) == f.data # Absent /\ s1 = Stat(f)

ProbeSecond(i, k) ==
    /\ pc[i] = (IF k = 1 THEN "dwell1" ELSE "dwell2")
    /\ IF is_stable(loc[i].s1, fs[loc[i].path])
       THEN Goto(i, "hash")
       ELSE IF k = 1 THEN Goto(i, "probe2") ELSE Goto(i, "resched")
    /\ loc' = [loc EXCEPT ![i].s1 = <<>>]
    /\ UNCHANGED <<SESSIONS, sent, vsfile, stores, crashes, fs, nops, events, state, disk, staging, objs, attached, nfail, _timers, scanpos>>

\* (mutant) an unstable file is given up: no schedule_upload
Reschedule_Dropped(i) ==
    /\ pc[i] = "resched"
    /\ Return(i)
    /\ UNCHANGED <<SESSIONS, sent, vsfile, stores, crashes, fs, nops, events, state, disk, staging,
                   objs, attached, nfail, _timers, scanpos>>

\* both probes failed, or the copy failed: schedule_upload(path); return
Reschedule(i) ==
    /\ pc[i] = "resched"
    /\ SchedCancel(i, loc[i].path)
    /\ UNCHANGED <<SESSIONS, sent, vsfile, stores, crashes, fs, nops, events, state, disk, staging, objs, attached, nfail, _timers, scanpos>>

\* new_hash = stable_hash(path): FileNotFoundError ends the thread
HashFile(i) ==
    /\ pc[i] = "hash"
    /\ LET f == fs[loc[i].path]
       IN  IF f.data = Absent
           THEN Return(i)
           ELSE /\ Goto(i, "getold")
                /\ loc' = [loc EXCEPT ![i].h = stable_hash(f.data)]
    /\ UNCHANGED <<SESSIONS, sent, vsfile, stores, crashes, fs, nops, events, state, disk, staging, objs, attached, nfail, _timers, scanpos>>

\* if old.get("hash") == new_hash: skip
Unchanged(old, h) == RecHash(old) = h

\* old = state["files"].get(key, {}); unchanged content returns
GetOld(i) ==
    /\ pc[i] = "getold"
    /\ LET old == DictGet(state.files, file_key(loc[i].path))
       IN  IF Unchanged(old, loc[i].h)
           THEN Return(i)
           ELSE /\ Goto(i, "copy")
                /\ loc' = [loc EXCEPT ![i].old = old]
    /\ UNCHANGED <<SESSIONS, sent, vsfile, stores, crashes, fs, nops, events, state, disk, staging, objs, attached, nfail, _timers, scanpos>>

\* (mutant) safe_copy_to_staging raises at the first failed attempt
CopyAttempt_NoRetry(i) ==
    /\ pc[i] = "copy"
    /\ LET f == fs[loc[i].path]
       IN  IF f.data # Absent
           THEN /\ staging' = [staging EXCEPT ![StagingName(loc[i].path)] = f.data]
                /\ Goto(i, "create")
                /\ loc' = [loc EXCEPT ![i].tries = 0]
           ELSE /\ UNCHANGED staging
                /\ Goto(i, "resched") /\ loc' = [loc EXCEPT ![i].tries = 0]
    /\ UNCHANGED <<SESSIONS, sent, vsfile, stores, crashes, fs, nops, events, state, disk, objs, attached, nfail,
                   _timers, scanpos>>

\* safe_copy_to_staging: one shutil.copy2 attempt; a failed attempt is retried
\* until tries > 10, then the exception reaches upload_and_link, which
\* reschedules
CopyAttempt(i) ==
    /\ pc[i] = "copy"
    /\ LET f == fs[loc[i].path]
       IN  IF f.data # Absent
           THEN /\ staging' = [staging EXCEPT ![StagingName(loc[i].path)] = f.data]
                /\ Goto(i, "create")
                /\ loc' = [loc EXCEPT ![i].tries = 0]
           ELSE /\ UNCHANGED staging
                /\ IF loc[i].tries + 1 > MaxCopyRetries
                   THEN Goto(i, "resched") /\ loc' = [loc EXCEPT ![i].tries = 0]
                   ELSE UNCHANGED pc /\ loc' = [loc EXCEPT ![i].tries = @ + 1]
    /\ UNCHANGED <<SESSIONS, sent, vsfile, stores, crashes, fs, nops, events, state, disk, objs, attached, nfail,
                   _timers, scanpos>>

\* the id the remote service gives the next file object
NewFileId == Cardinality(DOMAIN objs) + 1

\* with staging.open("rb") as f: fobj = client.files.create(file=f, ...)
\* (a missing staged file, or a failed call, raises: the finally clause runs)
CreateObject(i, ok) ==
    /\ pc[i] = "create"
    /\ LET d == staging[StagingName(loc[i].path)]
       IN  IF d = Absent
           THEN /\ Goto(i, "unlink")
                /\ UNCHANGED <<objs, nfail, loc>>
           ELSE /\ ok \/ MayFail
                /\ nfail' = IF ok THEN nfail ELSE nfail + 1
                /\ IF ok
                   THEN /\ objs' = DictSet(objs, NewFileId,
                                           [data |-> d, name |-> StagingName(loc[i].path)])
                        /\ loc' = [loc EXCEPT ![i].fobj = NewFileId,
                                              ![i].log = Append(@, Call("create", NewFileId, ok))]
                        /\ Goto(i, "attach")
                   ELSE /\ UNCHANGED objs
                        /\ loc' = [loc EXCEPT ![i].log = Append(@, Call("create", 0, ok))]
                        /\ Goto(i, "unlink")
    /\ UNCHANGED <<SESSIONS, sent, vsfile, stores, crashes, fs, nops, events, state, disk, staging, attached, _timers, scanpos>>

\* (mutant) a failed attach is swallowed and the cleanup still runs
AttachObject_Swallowed(i, ok) ==
    /\ pc[i] = "attach"
    /\ ok \/ MayFail
    /\ loc' = [loc EXCEPT ![i].log = Append(@, Call("attach", loc[i].fobj, ok))]
    /\ nfail' = IF ok THEN nfail ELSE nfail + 1
    /\ attached' = IF ok THEN attached \cup {loc[i].fobj} ELSE attached
    /\ Goto(i, "cleanup")
    /\ UNCHANGED <<SESSIONS, sent, vsfile, stores, crashes, fs, nops, events, state, disk, staging, objs, _timers, scanpos>>

\* client.vector_stores.files.create(vector_store_id=VS_ID, file_id=fobj.id)
AttachObject(i, ok) ==
    /\ pc[i] = "attach"
    /\ ok \/ MayFail
    /\ loc' = [loc EXCEPT ![i].log = Append(@, Call("attach", loc[i].fobj, ok))]
    /\ nfail' = IF ok THEN nfail ELSE nfail + 1
    /\ attached' = IF ok THEN attached \cup {loc[i].fobj} ELSE attached
    /\ Goto(i, IF ok THEN "cleanup" ELSE "unlink")
    /\ UNCHANGED <<SESSIONS, sent, vsfile, stores, crashes, fs, nops, events, state, disk, staging, objs, _timers, scanpos>>

\* (mutant) a failed detach of the prior object is not caught: the action
\* leaves through the finally clause
CleanupOld_Aborts(i, ok) ==
    /\ pc[i] = "cleanup"
    /\ LET old_file_id == RecFileId(loc[i].old)
       IN  IF old_file_id # 0
           THEN /\ ok \/ MayFail
                /\ loc' = [loc EXCEPT ![i].log = Append(@, Call("detach", old_file_id, ok))]
                /\ nfail' = IF ok THEN nfail ELSE nfail + 1
                /\ attached' = IF ok THEN VsDetach(old_file_id) ELSE attached
           ELSE /\ ok
                /\ UNCHANGED <<loc, nfail, attached>>
    /\ Goto(i, IF ok THEN "setstate" ELSE "unlink")
    /\ UNCHANGED <<SESSIONS, sent, vsfile, stores, crashes, fs, nops, events, state, disk, staging, objs, _timers, scanpos>>

\* old_file_id = old.get("file_id"); if old_file_id: try delete / except warn
CleanupOld(i, ok) ==
    /\ pc[i] = "cleanup"
    /\ LET old_file_id == RecFileId(loc[i].old)
       IN  IF old_file_id # 0
           THEN /\ ok \/ MayFail
                /\ loc' = [loc EXCEPT ![i].log = Append(@, Call("detach", old_file_id, ok))]
                /\ nfail' = IF ok THEN nfail ELSE nfail + 1
                /\ attached' = IF ok THEN VsDetach(old_file_id) ELSE attached
           ELSE /\ ok
                /\ UNCHANGED <<loc, nfail, attached>>
    /\ Goto(i, "setstate")
    /\ UNCHANGED <<SESSIONS, sent, vsfile, stores, crashes, fs, nops, events, state, disk, staging, objs, _timers, scanpos>>

\* (mutant) the record is written without the new hash
NewRecord_NoHash(fid, h, p) == [file_id |-> fid, hash |-> <<>>, name |-> PathName(p)]

\* the record upload_and_link writes
NewRecord(fid, h, p) == [file_id |-> fid, hash |-> h, name |-> PathName(p)]

\* state["files"][key] = {"file_id": fobj.id, "hash": new_hash, "name": path.name}
SetRecord(i) ==
    /\ pc[i] = "setstate"
    /\ state' = [state EXCEPT !.files =
                    DictSet(@, file_key(loc[i].path),
                            NewRecord(loc[i].fobj, loc[i].h, loc[i].path))]
    /\ Goto(i, "save")
    /\ UNCHANGED <<SESSIONS, sent, vsfile, stores, crashes, fs, nops, events, disk, staging, objs, attached, nfail,
                   _timers, loc, scanpos>>

UploadSave(i) ==
    /\ pc[i] = "save"
    /\ SaveDump(i, "write")
    /\ UNCHANGED <<SESSIONS, sent, vsfile, stores, crashes, fs, nops, events, state, disk, staging, objs, attached, nfail, _timers, scanpos>>

UploadWrite(i) ==
    /\ pc[i] = "write"
    /\ SaveWrite(i)
    /\ Goto(i, "unlink")
    /\ loc' = [loc EXCEPT ![i].snap = EmptyDict]
    /\ UNCHANGED <<SESSIONS, sent, vsfile, stores, crashes, fs, nops, events, state, staging, objs, attached, nfail,
                   _timers, scanpos>>

\* save_state raises (STATE_FILE.write_text fails): the file is left as it
\* was and the exception leaves upload_and_link through the finally clause
UploadWriteFails(i) ==
    /\ pc[i] = "write"
    /\ MayFail
    /\ nfail' = nfail + 1
    /\ Goto(i, "unlink")
    /\ loc' = [loc EXCEPT ![i].snap = EmptyDict]
    /\ UNCHANGED <<SESSIONS, sent, vsfile, stores, crashes, fs, nops, events, state, disk, staging,
                   objs, attached, _timers, scanpos>>

\* (mutant) the finally clause leaves the staged file
Unlink_Kept(i) ==
    /\ pc[i] = "unlink"
    /\ Return(i)
    /\ UNCHANGED <<SESSIONS, sent, vsfile, stores, crashes, fs, nops, events, state, disk, staging,
                   objs, attached, nfail, _timers, scanpos>>

\* finally: staging.unlink(missing_ok=True)
Unlink(i) ==
    /\ pc[i] = "unlink"
    /\ staging' = [staging EXCEPT ![StagingName(loc[i].path)] = Absent]
    /\ Return(i)
    /\ UNCHANGED <<SESSIONS, sent, vsfile, stores, crashes, fs, nops, events, state, disk, objs, attached, nfail,
                   _timers, scanpos>>

(* ------------------------ process start and kill ---------------------- *)
\* a fresh working directory and no process: no .vs_state.json, no
\* .vector_store_id, an empty .staging, nothing at the remote service
Fresh ==
    /\ nops = 0
    /\ events = <<>>
    /\ state = DefaultState
    /\ disk = NoStateFile
    /\ staging = [n \in StagingNames |-> Absent]
    /\ objs = EmptyDict
    /\ attached = {}
    /\ nfail = 0
    /\ _timers = [k \in Keys |-> 0]
    /\ pc = [i \in Threads |-> IF i = 0 THEN "down" ELSE "none"]
    /\ loc = [i \in Threads |-> NoLocals]
    /\ scanpos = 1
    /\ vsfile = NoVsFile
    /\ stores = 0
    /\ crashes = 0
    /\ SESSIONS = EmptyDict
    /\ sent = [sid \in SessionIds |-> 0]

InitFresh == fs \in InitialFiles /\ Fresh

\* load_state: the persisted dict, or the default when there is no file
load_state == IF disk = NoStateFile THEN DefaultState ELSE disk

\* load_state: json.loads raises on a text that is not JSON
load_state_raises == disk = CorruptStateFile

\* (mutant) a state file that cannot be parsed is taken for no state file
Boot_Defaults ==
    /\ pc[0] = "down"
    /\ state' = IF load_state_raises THEN DefaultState ELSE load_state
    /\ pc' = [pc EXCEPT ![0] = "vs_check"]
    /\ UNCHANGED <<SESSIONS, sent, fs, nops, events, disk, staging, objs, attached, nfail,
                   _timers, loc, scanpos, vsfile, stores, crashes>>

\* the process starts: state = load_state() at import; an exception there
\* ends the process before ensure_vector_store is called
Boot ==
    /\ pc[0] = "down"
    /\ IF load_state_raises
       THEN /\ pc' = [pc EXCEPT ![0] = "failed"]
            /\ UNCHANGED state
       ELSE /\ state' = load_state
            /\ pc' = [pc EXCEPT ![0] = "vs_check"]
    /\ UNCHANGED <<SESSIONS, sent, fs, nops, events, disk, staging, objs, attached, nfail,
                   _timers, loc, scanpos, vsfile, stores, crashes>>

\* ensure_vector_store: if VS_ID_FILE.exists(): the id is read and put in
\* state (no save_state); initial_scan follows
VsCheck ==
    /\ pc[0] = "vs_check"
    /\ IF vsfile # NoVsFile
       THEN /\ state' = [state EXCEPT !.vector_store_id = vsfile]
            /\ pc' = [pc EXCEPT ![0] = "scan"]
       ELSE /\ UNCHANGED state
            /\ pc' = [pc EXCEPT ![0] = "vs_create"]
    /\ UNCHANGED <<SESSIONS, sent, fs, nops, events, disk, staging, objs, attached, nfail,
                   _timers, loc, scanpos, vsfile, stores, crashes>>

\* vs = client.vector_stores.create(name=...): a failed call ends the process
VsCreate(ok) ==
    /\ pc[0] = "vs_create"
    /\ ok \/ MayFail
    /\ stores' = IF ok THEN stores + 1 ELSE stores
    /\ nfail' = IF ok THEN nfail ELSE nfail + 1
    /\ pc' = [pc EXCEPT ![0] = IF ok THEN "vs_write" ELSE "down"]
    /\ state' = IF ok THEN state ELSE DefaultState
    /\ UNCHANGED <<SESSIONS, sent, fs, nops, events, disk, staging, objs, attached,
                   _timers, loc, scanpos, vsfile, crashes>>

\* VS_ID_FILE.write_text(vsid)
VsWrite ==
    /\ pc[0] = "vs_write"
    /\ vsfile' = VsId(stores)
    /\ pc' = [pc EXCEPT ![0] = "vs_save"]
    /\ UNCHANGED <<SESSIONS, sent, fs, nops, events, state, disk, staging, objs, attached, nfail,
                   _timers, loc, scanpos, stores, crashes>>

\* state["vector_store_id"] = vsid; save_state(state); initial_scan follows
VsSave ==
    /\ pc[0] = "vs_save"
    /\ state' = [state EXCEPT !.vector_store_id = vsfile]
    /\ disk' = state'
    /\ pc' = [pc EXCEPT ![0] = "scan"]
    /\ UNCHANGED <<SESSIONS, sent, fs, nops, events, staging, objs, attached, nfail,
                   _timers, loc, scanpos, vsfile, stores, crashes>>

\* a thread is about to run STATE_FILE.write_text: a kill inside it (the
\* file is truncated, then written) leaves an empty or cut-off file
MidWrite == pc[0] \in {"r_write", "vs_save"} \/ \E i \in Timers : pc[i] = "write"

\* the process is killed: its threads, its timers, its memory and the
\* observer's queue are gone; the files and the remote objects stay
Crash ==
    /\ pc[0] \notin {"down", "failed"}
    /\ crashes < MaxCrashes
    /\ \E torn \in BOOLEAN :
          /\ torn => MidWrite
          /\ disk' = IF torn THEN CorruptStateFile ELSE disk
    /\ crashes' = crashes + 1
    /\ pc' = [i \in Threads |-> IF i = 0 THEN "down" ELSE "none"]
    /\ loc' = [i \in Threads |-> NoLocals]
    /\ _timers' = [k \in Keys |-> 0]
    /\ events' = <<>>
    /\ state' = DefaultState
    /\ scanpos' = 1
    /\ UNCHANGED <<SESSIONS, sent, fs, nops, staging, objs, attached, nfail, vsfile, stores>>

Startup ==
    \/ Boot
    \/ VsCheck
    \/ \E ok \in BOOLEAN : VsCreate(ok)
    \/ VsWrite
    \/ VsSave

(* ----------------------- chatbot.py: session memory ------------------- *)
\* get_session: an unknown session id gets an empty list; SESSIONS after the call
get_session(S, sid) == IF sid \in DOMAIN S THEN S ELSE DictSet(S, sid, <<>>)

\* (mutant) add_turn keeps the first 2*MAX_TURNS entries
add_turn_KeepsFirst(S, sid, role, content) ==
    LET S1 == get_session(S, sid)
        sess == Append(S1[sid], [role |-> role, content |-> content])
    IN  IF Len(sess) > 2 * MAX_TURNS
        THEN DictSet(S1, sid, SubSeq(sess, 1, 2 * MAX_TURNS))
        ELSE DictSet(S1, sid, sess)

\* add_turn: sess.append(...); if len(sess) > 2 * MAX_TURNS:
\* SESSIONS[session_id] = sess[-2*MAX_TURNS:]; SESSIONS after the call
add_turn(S, sid, role, content) ==
    LET S1 == get_session(S, sid)
        sess == Append(S1[sid], [role |-> role, content |-> content])
    IN  IF Len(sess) > 2 * MAX_TURNS
        THEN DictSet(S1, sid, SubSeq(sess, Len(sess) - 2 * MAX_TURNS + 1, Len(sess)))
        ELSE DictSet(S1, sid, sess)

\* the history of a session, empty when the id is unknown
History(S, sid) == IF sid \in DOMAIN S THEN S[sid] ELSE <<>>

\* the turns a client sends are numbered: the content of the next turn is
\* its number, from 1 after a reset
NextContent(sid) == sent[sid] + 1

\* chat() adds the user's turn, then the assistant's
NextRole(sid) == IF NextContent(sid) % 2 = 1 THEN "user" ELSE "assistant"

\* one add_turn call for session sid
AddTurn(sid) ==
    /\ sent[sid] < MaxMsgs
    /\ sent' = [sent EXCEPT ![sid] = @ + 1]
    /\ SESSIONS' = add_turn(SESSIONS, sid, NextRole(sid), NextContent(sid))
    /\ UNCHANGED watcherVars

\* chat() reads the history: for t in get_session(session_id)
ReadHistory(sid) ==
    /\ SESSIONS' = get_session(SESSIONS, sid)
    /\ UNCHANGED <<watcherVars, sent>>

\* reset: SESSIONS.clear(); the clients start again
reset ==
    /\ SESSIONS' = EmptyDict
    /\ sent' = [sid \in SessionIds |-> 0]
    /\ UNCHANGED watcherVars

(* --------------------------- specification ---------------------------- *)
\* the steps of the running watcher other than the handling of a created,
\* moved or modified event: on_deleted, schedule_upload's second half, the
\* timers and upload_and_link
Serving ==
    \/ OnDeleted
    \/ \E ok \in BOOLEAN : RemoveDelete(ok)
    \/ RemovePop
    \/ RemoveSave
    \/ RemoveWrite
    \/ \E c \in Threads : SchedArm(c)
    \/ \E i \in Timers :
        \/ Fire(i)
        \/ CheckExists(i)
        \/ \E k \in {1, 2} : ProbeFirst(i, k) \/ ProbeSecond(i, k)
        \/ Reschedule(i)
        \/ HashFile(i)
        \/ GetOld(i)
        \/ CopyAttempt(i)
        \/ \E ok \in BOOLEAN : CreateObject(i, ok) \/ AttachObject(i, ok) \/ CleanupOld(i, ok)
        \/ SetRecord(i)
        \/ UploadSave(i)
        \/ UploadWrite(i)
        \/ UploadWriteFails(i)
        \/ Unlink(i)

\* the steps of the watcher once the observer runs
Observing == OnUpsert \/ Serving

\* the program's steps
Program == ScanNext \/ ObserverStart \/ Observing

\* vs.py's steps: its functions other than the three handlers of vs_OnUpsert
\* are, comments aside, the text of watcher.py's
vs_Program == ScanNext \/ ObserverStart \/ vs_OnUpsert \/ Serving

\* One document, docs/a.pdf, written and removed by other processes.
Next ==
    \/ \E d \in Contents : FsWrite("a", d)
    \/ FsDelete("a")
    \/ Program

Spec == Init /\ [][Next]_vars

\* The same, with the threads of the process scheduled fairly: a thread that
\* can take a step, or a timer that is armed, is not held back forever.
FairSpec == Spec /\ WF_vars(Program)

\* One document, docs/a.pdf, with the observer running from the start: every
\* operation on the file is delivered as an event.
NextWatch ==
    \/ \E d \in Contents : FsWrite("a", d)
    \/ FsDelete("a")
    \/ Observing

SpecWatch == InitWatch /\ [][NextWatch]_vars

\* The same, with docs/a.pdf renamed to docs/sub/B.PDF.
NextMove ==
    \/ \E d \in Contents : FsWrite("a", d)
    \/ FsDelete("a")
    \/ FsMove("a", "b")
    \/ Observing

SpecMove == InitWatch /\ [][NextMove]_vars

\* Either module, watcher.py or vs.py, on a tree whose files are created,
\* renamed and removed but never rewritten: every step is a step of one of
\* the two programs from the state they share.
NextEither ==
    \/ \E p \in {"a", "b"}, d \in Contents : FsCreate(p, d)
    \/ FsDelete("a")
    \/ FsMove("a", "b")
    \/ Program
    \/ vs_OnUpsert

SpecEither == Init /\ [][NextEither]_vars

\* chatbot.py's session memory: add_turn, get_session and reset calls for two
\* sessions, in any order.
NextChat ==
    \/ \E sid \in SessionIds : AddTurn(sid)
    \/ \E sid \in SessionIds : ReadHistory(sid)
    \/ reset

SpecChat == InitWatch /\ [][NextChat]_vars

\* the paths of the tree with one document of each name
TreePaths == Paths \ {"c"}

\* The followed tree with one document of each name, with renames.
NextTree ==
    \/ \E p \in TreePaths, d \in Contents : FsWrite(p, d)
    \/ \E p \in TreePaths : FsDelete(p)
    \/ \E p, q \in TreePaths : FsMove(p, q)
    \/ Program

SpecTree == InitTree /\ [][NextTree]_vars

\* Two documents of the same name in different directories: docs/a.pdf is
\* left alone, docs/sub/a.pdf is rewritten with its own bytes and removed.
NextPair ==
    \/ FsWrite("c", OtherFile.data)
    \/ FsDelete("c")
    \/ Program

SpecPair == InitPair /\ [][NextPair]_vars

\* a tree that holds docs/a.pdf and docs/sub/B.PDF
InitialTwo == [p \in Paths |-> IF p \in {"a", "b"} THEN OldFile ELSE NoFile]

InitTwo == fs = InitialTwo /\ Started

\* Two documents of different names: docs/a.pdf is left alone, docs/sub/B.PDF
\* is written again and again, and removed.
NextTwo ==
    \/ FsWrite("b", OldFile.data)
    \/ FsDelete("b")
    \/ Program

SpecTwo == InitTwo /\ [][NextTwo]_vars

\* The same, with the threads of the process scheduled fairly: a thread that
\* can take a step, or a timer that is armed, is not held back forever.
FairTwo == SpecTwo /\ WF_vars(Program)

\* One document, from a fresh working directory, with the process killed and
\* started again.
NextRestart ==
    \/ \E d \in Contents : FsWrite("a", d)
    \/ FsDelete("a")
    \/ Program
    \/ Startup
    \/ Crash

SpecRestart == InitFresh /\ [][NextRestart]_vars

(* ------------------------------- claims -------------------------------- *)
\* the timer threads that run upload_and_link for key k (fired, not returned)
InFlight(k) ==
    {i \in Timers : pc[i] \notin {"none", "armed", "cancelled", "done"}
                    /\ file_key(loc[i].path) = k}

\* the timers of key k that are armed: started, not fired, not cancelled
Live(k) == {i \in Timers : pc[i] = "armed" /\ file_key(loc[i].path) = k}

\* the remote file objects uploaded from path p
ObjectsOf(p) == {f \in DOMAIN objs : objs[f].name = StagingName(p)}

\* C1: idempotence. a.pdf has held the same bytes all along (it was there at
\* startup and was rewritten once with the same bytes, or it was written once),
\* so every qualifying event so far is for unchanged content: there is at most
\* one remote object and at most one store record for it.
C1_OneObjectForUnchangedContent ==
    (nops = 1 /\ fs["a"].data = 1 /\ fs["a"].mtime \in {1, 2})
        => /\ Cardinality(ObjectsOf("a")) <= 1
           /\ Cardinality(DOMAIN state.files) <= 1

\* a successful remote call of the given kind in a thread's log
IsOk(c, op) == c.op = op /\ c.ok

\* C2: new-before-old. In the calls one upload_and_link makes, a detach of the
\* prior object comes only after a successful create and a successful attach
\* of the new object, and the new object is attached when the detach is made;
\* after a failed create or attach the action makes no further call.
C2_NewBeforeOld ==
    \A i \in Timers :
        LET log == loc[i].log
        IN  \A n \in 1..Len(log) :
                /\ log[n].op = "detach" =>
                      /\ n = 3
                      /\ IsOk(log[1], "create") /\ IsOk(log[2], "attach")
                      /\ log[2].fid = log[1].fid
                      /\ log[3].fid = RecFileId(loc[i].old)
                      /\ log[3].fid # log[1].fid
                /\ ~log[n].ok /\ log[n].op # "detach" => n = Len(log)

\* a replacement whose three calls succeeded
C2_Witness ==
    \E i \in Timers :
        /\ pc[i] = "setstate"
        /\ Len(loc[i].log) = 3
        /\ IsOk(loc[i].log[3], "detach")

\* C3: debounce coalescing. When a timer of a key fires it is the only armed
\* timer of that key and it is the one the last schedule_upload call
\* registered: the calls of a burst leave one execution, the last call's.
C3_BurstOneExecution ==
    [][\A i \in Timers :
          (pc[i] = "armed" /\ pc'[i] = "exists")
              => /\ Live(file_key(loc[i].path)) = {i}
                 /\ _timers[file_key(loc[i].path)] = i]_vars

\* C4: at most one live debounce timer per key, in every reachable state
C4_OneLiveTimerPerKey == \A k \in Keys : Cardinality(Live(k)) <= 1

\* C5: at most one upload_and_link in flight per key
C5_OneInFlightPerKey == \A k \in Keys : Cardinality(InFlight(k)) <= 1

\* the paths of the followed tree that do not qualify: a lock prefix, a lock
\* prefix with a temporary suffix, an extension outside the allow-list
Rejected == {"lk", "lt", "x"}

\* C6: filtering. Whatever events arrive and whatever the scan finds, a path
\* that does not qualify has no timer (armed or not), is handled by no thread,
\* has no staged copy, no remote object and no record in the store or on disk.
C6_RejectedPathsUntouched ==
    /\ \A i \in Threads : loc[i].path \notin Rejected
    /\ \A p \in Rejected :
        /\ _timers[file_key(p)] = 0
        /\ staging[StagingName(p)] = Absent
        /\ ObjectsOf(p) = {}
        /\ file_key(p) \notin DOMAIN state.files
        /\ file_key(p) \notin DOMAIN disk.files

\* the scan has gone over the three rejected files, which were there all
\* along, and the observer is handed a modified event for ~$r.docx.tmp
C6_Witness ==
    /\ pc[0] = "idle"
    /\ nops = 1
    /\ \A p \in Rejected : fs[p].data # Absent
    /\ events = <<[kind |-> "modified", path |-> "lt"]>>

\* C7: deletion effect. When remove_from_vector_store returns for a path that
\* had a record, it has made one remote removal, of that record's object id,
\* and neither the in-memory store nor the persisted file holds the path.
C7_DeletionEffect ==
    [][(pc[0] = "r_write" /\ pc'[0] = "idle")
          => /\ Len(loc[0].log) = 1
             /\ loc[0].log[1].op = "detach"
             /\ loc[0].log[1].fid = RecFileId(loc[0].old)
             /\ file_key(loc[0].path) \notin DOMAIN state'.files
             /\ file_key(loc[0].path) \notin DOMAIN disk'.files]_vars

\* the deleted event of a tracked path p has been processed: the file is gone,
\* no event for it is pending, its record is gone (only the delete handler
\* removes a record) and, no remote call having failed, an object that was
\* uploaded and attached for it has been unlinked from the vector store
DeletedAndProcessed(p) ==
    /\ fs[p].data = Absent
    /\ pc[0] = "idle"
    /\ \A n \in 1..Len(events) : events[n].path # p
    /\ file_key(p) \notin DOMAIN state.files
    /\ nfail = 0
    /\ \E f \in ObjectsOf(p) : f \notin attached /\ \A i \in Timers : loc[i].fobj # f

\* C8: no resurrection. Once the deleted event of a tracked path has been
\* processed, and while the file stays absent, no step writes a record for the
\* path or attaches a remote object.
C8_NoResurrection ==
    [][\A p \in Paths :
          (DeletedAndProcessed(p) /\ fs'[p].data = Absent)
              => /\ file_key(p) \notin DOMAIN state'.files
                 /\ attached' \subseteq attached]_vars

\* C9: after a successful replacement the prior object is unlinked from the
\* vector store and no longer exists as a remote object.
C9_PriorObjectDeleted ==
    \A i \in Timers :
        (pc[i] = "setstate" /\ Len(loc[i].log) = 3 /\ loc[i].log[3].ok)
            => /\ loc[i].log[3].fid \notin attached
               /\ loc[i].log[3].fid \notin DOMAIN objs

\* a.pdf did not exist at startup and has been written once: the program got
\* one created event for it (from the observer or from the scan)
FirstWrite == nops = 1 /\ fs["a"].data # Absent /\ fs["a"].mtime = 1

\* no thread is running, no timer is pending, no event is waiting
Quiescent ==
    /\ pc[0] = "idle"
    /\ events = <<>>
    /\ \A i \in Timers : pc[i] \in {"none", "done", "cancelled"}

\* C10: first upload. With an empty store, one created event for a stable
\* file and no remote failure, the action makes one create and then one attach
\* of the created object; when it has finished there is one remote object, it
\* is attached, and the store (in memory and on disk) has one record, for that
\* path, with the content's hash and the created object's id.
C10_FirstUpload ==
    (FirstWrite /\ nfail = 0) =>
        /\ \A i \in Timers :
              /\ Len(loc[i].log) <= 2
              /\ Len(loc[i].log) >= 1 => loc[i].log[1] = Call("create", 1, TRUE)
              /\ Len(loc[i].log) = 2 => loc[i].log[2] = Call("attach", 1, TRUE)
              /\ pc[i] \in {"cleanup", "setstate", "save", "write"} => Len(loc[i].log) = 2
        /\ Cardinality(DOMAIN objs) <= 1
        /\ (Quiescent /\ _timers[file_key("a")] # 0) =>
              /\ DOMAIN objs = {1}
              /\ attached = {1}
              /\ DOMAIN state.files = {file_key("a")}
              /\ state.files[file_key("a")] =
                    [file_id |-> 1, hash |-> stable_hash(fs["a"].data),
                     name |-> PathName("a")]
              /\ state.files[file_key("a")].hash # <<>>
              /\ disk = state

C10_Witness ==
    /\ FirstWrite /\ nfail = 0
    /\ Quiescent
    /\ _timers[file_key("a")] # 0
    /\ DOMAIN state.files = {file_key("a")}

\* the positions of upload_and_link at which safe_copy_to_staging has returned
HasStaged == {"create", "attach", "cleanup", "setstate", "save", "write", "unlink"}

C12_ModifiedIgnoredWhenFlagSet ==
    [][(/\ ONLY_MOVE_CREATE
        /\ pc[0] = "idle" /\ events # <<>> /\ Head(events).kind = "modified"
        /\ events' = Tail(events))
          => pc' = pc /\ _timers' = _timers]_vars

\* C13: fingerprint/upload self-consistency. The hash of every store record
\* is the hash of the bytes of the remote object the record names.
C13_RecordHashIsUploadedHash ==
    \A k \in DOMAIN state.files :
        LET rec == state.files[k]
        IN  rec.file_id \in DOMAIN objs
                => rec.hash = stable_hash(objs[rec.file_id].data)

\* every store record names a remote object that is attached to the index
\* (state.files is a dict: it has at most one record per canonical path)
RecordsAttached ==
    \A k \in DOMAIN state.files :
        /\ state.files[k].file_id # 0
        /\ state.files[k].file_id \in attached

\* C14: store/index invariant, in the states where no operation is in the
\* middle of its execution (the claim states it for every reachable state):
\* every record's object id is non-null and its object is attached.
C14_RecordsAttachedAtRest == Quiescent => RecordsAttached

\* the positions of upload_and_link before its first write to the store
BeforeRecord == {"exists", "probe1", "dwell1", "probe2", "dwell2", "resched",
                 "sarm", "hash", "getold", "copy", "create", "attach"}

\* thread i is leaving upload_and_link after its create or its attach failed
Aborted(i) ==
    /\ pc[i] = "unlink"
    /\ loc[i].log # <<>>
    /\ LET last == loc[i].log[Len(loc[i].log)]
       IN  last.op \in {"create", "attach"} /\ ~last.ok

\* C15: remote failure leaves the state unchanged. No step that an upload
\* action takes up to and including its attach, and no step it takes after a
\* failed create or attach, changes the in-memory store or the state file;
\* and a failed create or attach takes the action straight to its exit.
C15_FailedUploadLeavesState ==
    [][\A i \in Timers :
          /\ (pc'[i] # pc[i] /\ (pc[i] \in BeforeRecord \/ Aborted(i)))
                => state' = state /\ disk' = disk
          /\ (pc[i] \in {"create", "attach"} /\ Len(loc'[i].log) > Len(loc[i].log)
                 /\ ~loc'[i].log[Len(loc'[i].log)].ok)
                => pc'[i] = "unlink"]_vars

\* a replacement whose attach failed: the record is the one the action read
C15_Witness ==
    \E i \in Timers :
        /\ Aborted(i)
        /\ loc[i].log[Len(loc[i].log)].op = "attach"
        /\ loc[i].old # EmptyDict
        /\ DictGet(state.files, file_key(loc[i].path)) = loc[i].old
        /\ DictGet(disk.files, file_key(loc[i].path)) = loc[i].old

\* C16: single remote index across restarts. Over the process's starts and
\* kills the remote service has been asked to create at most one vector store.
C16_IndexCreatedOnce == stores <= 1

\* the remote objects that no record of the given store names
Unreferenced(store) ==
    {f \in DOMAIN objs : \A k \in DOMAIN store.files : store.files[k].file_id # f}

\* the objects created by the upload actions in flight
InHand == {loc[i].fobj : i \in Timers} \ {0}

\* C17: crash recovery, the leak bound. A kill of the process adds at most
\* one object of a.pdf to the objects that the store does not reference:
\* of the objects unreferenced by the persisted store after the kill, at most
\* one was referenced, or about to be recorded by an action, before it.
C17_CrashLeaksAtMostOne ==
    [][crashes' = crashes + 1
          => Cardinality((Unreferenced(disk') \cap ObjectsOf("a"))
                            \ (Unreferenced(state) \ InHand)) <= 1]_vars

PresentKeys == {file_key(p) : p \in {q \in Paths : Qualifies(q) /\ fs[q].data # Absent}}

\* C19: convergence across restarts, for the files that went away. After a
\* restart, when the scan is over, no event is waiting, no call has failed and
\* this run has armed no timer at all (so nothing scheduled is outstanding),
\* every path with a store record is a qualifying file of the tree.
C19_NoRecordOfMissingFile ==
    (/\ crashes >= 1 /\ Quiescent /\ nfail = 0
     /\ \A k \in Keys : _timers[k] = 0)
        => DOMAIN state.files \subseteq PresentKeys

\* no operation that mutates the store is in the middle of its execution: the
\* module is imported, the main/observer thread is between two handler calls
\* and no timer thread is running
AtRest ==
    /\ pc[0] \in {"scan", "idle"}
    /\ \A i \in Timers : pc[i] \in {"none", "armed", "cancelled", "done"}

\* C20: flush after every mutation. Whenever no operation is mid-execution,
\* the persisted state file equals the in-memory store.
C20_PersistedEqualsMemoryAtRest == AtRest => disk = state

\* the only filesystem operation so far is one write that created B.PDF: the
\* scan's action for a.pdf and the one action for B.PDF (from the scan or
\* from the created event) are the only actions, and they are for distinct
\* paths
TwoPathsOnly ==
    /\ nops = 1
    /\ fs["b"].data # Absent
    /\ \A p \in Paths \ {"b"} : fs[p] = InitialTree[p]

\* C21: cross-path flushes commute. When the actions for two distinct paths
\* (a.pdf and B.PDF, one action each) ran on their timer threads, no call
\* failed and everything has completed, the state file equals the in-memory
\* store.
C21_CrossPathFlushesCommute ==
    (TwoPathsOnly /\ nfail = 0 /\ Quiescent) => disk = state

\* the bytes a document of SpecPair has whenever it exists
OwnContent(p) == InitialPair[p].data

\* C22: collision-free staging. Actions for docs/a.pdf and docs/sub/a.pdf
\* never use each other's staged copy: the object recorded for either
\* document holds that document's own bytes.
C22_CollisionFreeStaging ==
    \A p \in {"a", "c"} :
        file_key(p) \in DOMAIN state.files
            => objs[state.files[file_key(p)].file_id].data = OwnContent(p)

\* the process is not running and the state file cannot be parsed
DownAndCorrupt == disk = CorruptStateFile /\ pc[0] \in {"down", "failed"}

\* C23: corrupt state is fatal. With a state file that cannot be parsed, a
\* start of the process ends at load_state: the process never gets past it,
\* no index is created or looked up, no timer is armed, no remote call is
\* made, and the state file and the id file are left as they are.
C23_CorruptStateIsFatal ==
    [][DownAndCorrupt =>
          /\ pc'[0] \in {"down", "failed"}
          /\ (pc'[0] # pc[0] => pc'[0] = "failed")
          /\ \A i \in Timers : pc'[i] = "none"
          /\ UNCHANGED <<disk, state, vsfile, stores, objs, attached, staging,
                         _timers, nfail>>]_vars

\* a start of the process has ended at the state file it could not parse
C23_Witness == pc[0] = "failed" /\ disk = CorruptStateFile /\ crashes = 1

\* the detach that remove_from_vector_store made failed although the object
\* is attached: the failure is not the permanent "already absent" one
TransientDetachFailure ==
    /\ loc[0].log # <<>>
    /\ ~loc[0].log[Len(loc[0].log)].ok
    /\ RecFileId(loc[0].old) \in attached

\* C24: record removal requires remote success. On a deleted event the
\* record is removed exactly when the detach succeeded or failed because the
\* object was already absent; after a transient failure the record is kept.
C24_RecordRemovalRequiresSuccess ==
    [][(pc[0] = "r_pop" /\ pc'[0] # pc[0])
          => (file_key(loc[0].path) \in DOMAIN state'.files <=> TransientDetachFailure)]_vars

\* C25: no created-but-unattached object. When an upload action whose create
\* succeeded and whose attach failed leaves, the object it created is attached
\* or no longer exists.
C25_NoCreatedUnattachedObject ==
    [][\A i \in Timers :
          (Aborted(i) /\ loc[i].fobj # 0 /\ pc'[i] # pc[i])
              => (loc[i].fobj \in attached' \/ loc[i].fobj \notin DOMAIN objs')]_vars

\* the positions of upload_and_link from its first probe to the return that
\* follows schedule_upload
Probing == {"probe1", "dwell1", "probe2", "dwell2", "resched", "sarm"}

\* the timers a step arms
NewlyArmed == {n \in Timers : pc'[n] = "armed" /\ pc[n] # "armed"}

\* C26: an unstable file is rescheduled, not processed. While it probes and
\* when it reschedules, an upload action stages nothing, makes no remote call
\* and changes neither the store nor the state file; a stable probe takes it
\* to the fingerprint; after two unstable probes it calls schedule_upload,
\* which arms exactly one new timer for the path, and returns.
C26_UnstableFileRescheduled ==
    [][\A i \in Timers :
          (pc'[i] # pc[i] /\ pc[i] \in Probing) =>
              LET stable == is_stable(loc[i].s1, fs[loc[i].path])
                  gone == fs[loc[i].path].data = Absent
              IN  /\ UNCHANGED <<state, disk, staging, objs, attached, nfail>>
                  /\ loc[i].log = <<>> /\ loc'[i].log = <<>>
                  /\ pc[i] = "probe1" => pc'[i] = (IF gone THEN "probe2" ELSE "dwell1")
                  /\ pc[i] = "dwell1" => pc'[i] = (IF stable THEN "hash" ELSE "probe2")
                  /\ pc[i] = "probe2" => pc'[i] = (IF gone THEN "resched" ELSE "dwell2")
                  /\ pc[i] = "dwell2" => pc'[i] = (IF stable THEN "hash" ELSE "resched")
                  /\ pc[i] = "resched" => pc'[i] = "sarm" /\ NewlyArmed = {}
                  /\ pc[i] = "sarm" =>
                        /\ pc'[i] = "none"
                        /\ Cardinality(NewlyArmed) = 1
                        /\ \A n \in NewlyArmed :
                              /\ loc'[n].path = loc[i].path
                              /\ _timers'[file_key(loc[i].path)] = n]_vars

\* a.pdf was written during each of the two probes of an action: both probes
\* were unstable and the action is at its schedule_upload call
C26_Witness ==
    \E i \in Timers :
        /\ pc[i] = "resched"
        /\ loc[i].h = <<>>
        /\ fs[loc[i].path].data # Absent
        /\ nops = 2

\* C27: the staging retry is bounded and escalates to a reschedule. A copy
\* attempt fails when the source is gone; safe_copy_to_staging gives up at
\* the failed attempt that follows 10 failed ones (the initial attempt and
\* 10 retries) and at no other; upload_and_link then has staged nothing,
\* made no remote call and changed no store, and calls schedule_upload
\* (which arms the new timer and returns, as in C26).
C27_StagingRetryBounded ==
    [][/\ \A i \in Timers :
          (pc[i] = "copy" /\ (pc'[i] # pc[i] \/ loc'[i] # loc[i])) =>
              LET failed == fs[loc[i].path].data = Absent
              IN  /\ UNCHANGED <<state, disk, objs, attached, nfail>>
                  /\ loc[i].tries <= MaxCopyRetries
                  /\ loc[i].log = <<>> /\ loc'[i].log = <<>>
                  /\ pc'[i] = "resched" <=> (failed /\ loc[i].tries = MaxCopyRetries)
                  /\ pc'[i] = "copy" <=> (failed /\ loc[i].tries < MaxCopyRetries)
                  /\ failed => UNCHANGED staging
                  /\ (pc'[i] = "copy" => loc'[i].tries = loc[i].tries + 1)
       /\ \A i \in Timers :
          (pc[i] = "resched" /\ loc[i].h # <<>> /\ pc'[i] # pc[i]) =>
              /\ pc'[i] = "sarm"
              /\ loc[i].log = <<>>
              /\ UNCHANGED <<state, disk, staging, objs, attached, nfail>>]_vars

\* an action whose copy failed 11 times is at its schedule_upload call
C27_Witness ==
    \E i \in Timers :
        /\ pc[i] = "resched"
        /\ loc[i].h # <<>>
        /\ fs[loc[i].path].data = Absent

\* the action of thread i created and attached a new object and its detach
\* of the prior object failed
FailedCleanup(i) ==
    /\ Len(loc[i].log) = 3
    /\ IsOk(loc[i].log[1], "create") /\ IsOk(loc[i].log[2], "attach")
    /\ loc[i].log[3].op = "detach" /\ ~loc[i].log[3].ok

\* C28: a cleanup failure is not fatal. After a failed detach of the prior
\* object the action goes on as after a successful one: it sets the record to
\* the new object's id and the new hash, flushes the store (a write that
\* succeeds puts the record in the state file) and removes the staged copy.
C28_CleanupFailureNonFatal ==
    [][\A i \in Timers :
          LET k == file_key(loc[i].path)
              rec == NewRecord(loc[i].fobj, loc[i].h, loc[i].path)
          IN  /\ (pc[i] = "cleanup" /\ pc'[i] # pc[i]) => pc'[i] = "setstate"
              /\ (FailedCleanup(i) /\ pc'[i] # pc[i]) =>
                    /\ pc[i] \in {"setstate", "save", "write", "unlink"}
                    /\ pc[i] = "setstate" =>
                          /\ pc'[i] = "save"
                          /\ DictGet(state'.files, k) = rec
                          /\ rec.file_id = loc[i].log[1].fid
                          /\ rec.hash # <<>>
                    /\ pc[i] = "save" =>
                          /\ pc'[i] = "write"
                          /\ loc'[i].snap = state
                    /\ pc[i] = "write" =>
                          /\ pc'[i] = "unlink"
                          /\ nfail' = nfail => disk' = loc[i].snap
                    /\ pc[i] = "unlink" =>
                          /\ pc'[i] \in {"none", "done"}
                          /\ staging'[StagingName(loc[i].path)] = Absent]_vars

\* an action whose detach of the prior object failed has recorded the new
\* object in memory and in the state file, and is at its exit
C28_Witness ==
    \E i \in Timers :
        /\ FailedCleanup(i)
        /\ pc[i] = "unlink"
        /\ RecFileId(DictGet(state.files, file_key(loc[i].path))) = loc[i].fobj
        /\ RecFileId(DictGet(disk.files, file_key(loc[i].path))) = loc[i].fobj
        /\ loc[i].log[3].fid \in attached

\* C29: rescheduling on recoverable remote errors. A remote call of an
\* upload action fails only for a recoverable reason (network, service);
\* when the action leaves after a failed create or attach, it has gone to
\* schedule_upload or a timer is armed for its path.
C29_RecoverableErrorRescheduled ==
    [][\A i \in Timers :
          (Aborted(i) /\ pc'[i] # pc[i])
              => \/ pc'[i] \in {"resched", "sarm"}
                 \/ \E n \in Timers : pc'[n] = "armed" /\ loc'[n].path = loc[i].path]_vars

\* the observer thread is about to handle a deleted event for a qualifying
\* path that has no record
DeletedWithoutRecord ==
    /\ pc[0] = "idle"
    /\ events # <<>>
    /\ Head(events).kind = "deleted"
    /\ Qualifies(Head(events).path)
    /\ file_key(Head(events).path) \notin DOMAIN state.files

\* C30: a deleted event without a record is a no-op. Handling a deleted
\* event for a qualifying path that has no record makes no remote call,
\* changes neither the in-memory store nor the state file, cancels and arms
\* no timer, and leaves the observer thread idle.
C30_DeletedWithoutRecordNoOp ==
    [][(DeletedWithoutRecord /\ events' = Tail(events))
          => /\ UNCHANGED <<state, disk, objs, attached, nfail, staging, _timers>>
             /\ pc' = pc
             /\ loc'[0] = loc[0]]_vars

\* a.pdf was written and removed before any action uploaded it, and the
\* deleted event is the next the observer thread handles
C30_Witness ==
    /\ DeletedWithoutRecord
    /\ Head(events).path = "a"
    /\ nops = 2
    /\ objs = EmptyDict

\* thread i runs upload_and_link for path p
Busy(i, p) == loc[i].path = p /\ pc[i] \notin {"none", "done", "cancelled", "armed"}

\* a timer for path p is armed, or an action for p has not yet passed its
\* probes or is rescheduling
Pending(p) ==
    \E i \in Timers :
        /\ loc[i].path = p
        /\ pc[i] \in {"armed", "exists", "probe1", "dwell1", "probe2", "dwell2",
                       "resched", "sarm"}

\* B.PDF exists and no process will touch it again
StaysStable(p) == nops = MaxFsOps /\ fs[p].data # Absent

\* C31: progress under instability. With B.PDF written while it is probed:
\* an action probes only after a timer started it, and one that finds the
\* file unstable goes through schedule_upload and returns (no loop inside
\* the action); under fair scheduling the action for a.pdf runs to its end
\* whatever happens to B.PDF; and once B.PDF stays stable, a pending action
\* for it reaches the comparison of fingerprints.
C31_ProgressUnderInstability ==
    /\ [][\A i \in Timers :
            /\ (pc'[i] = "exists" /\ pc[i] # "exists") => pc[i] = "armed"
            /\ (pc'[i] = "probe1" /\ pc[i] # "probe1") => pc[i] = "exists"
            /\ (pc[i] = "resched" /\ pc'[i] # pc[i]) => pc'[i] = "sarm"
            /\ (pc[i] = "sarm" /\ pc'[i] # pc[i]) => pc'[i] = "none"]_vars
    /\ (\E i \in Timers : Busy(i, "a")) ~> (\A i \in Timers : ~Busy(i, "a"))
    /\ (StaysStable("b") /\ Pending("b"))
          ~> (\E i \in Timers : loc[i].path = "b" /\ pc[i] = "getold")

\* B.PDF was written during each of the two probes of its action, which is
\* at its schedule_upload call; the file now stays stable; meanwhile the
\* action for a.pdf ran to its end and recorded a.pdf
C31_Witness ==
    /\ StaysStable("b")
    /\ \E i \in Timers : pc[i] = "resched" /\ loc[i].path = "b" /\ loc[i].h = <<>>
    /\ file_key("a") \in DOMAIN state.files
    /\ \A i \in Timers : ~Busy(i, "a")

\* the record of docs/a.pdf in the in-memory store
RecordOfA == DictGet(state.files, file_key("a"))

\* C32: latest content wins. With every operation on a.pdf delivered as an
\* event and no call failing, once every action has completed and a.pdf has
\* a record, the record's hash is the hash of the file's current content and
\* its object holds that content.
C32_LatestContentWins ==
    (Quiescent /\ nfail = 0 /\ fs["a"].data # Absent /\ RecordOfA # EmptyDict)
        => /\ RecordOfA.hash = stable_hash(fs["a"].data)
           /\ objs[RecordOfA.file_id].data = fs["a"].data

\* the object ids the records of the in-memory store refer to
Referenced == {state.files[k].file_id : k \in DOMAIN state.files}

\* C33: no orphaned or duplicate index entries. When nothing is executing or
\* waiting and no call has failed, the objects attached to the index are
\* exactly the objects the records refer to, and no two records refer to the
\* same object.
C33_NoOrphanedIndexEntries ==
    (Quiescent /\ nfail = 0)
        => /\ attached = Referenced
           /\ Cardinality(Referenced) = Cardinality(DOMAIN state.files)

\* docs/a.pdf was created and then moved to docs/sub/B.PDF, and nothing else
\* happened to the tree
MovedAToB ==
    /\ nops = 2
    /\ fs["a"].data = Absent
    /\ fs["b"].data # Absent

\* C34: a move within the watched tree. After a.pdf was moved to sub/B.PDF
\* with the observer running, when every action has completed and no call
\* failed, the store has a
\* record for B.PDF and none for a.pdf, and no object of a.pdf's old record
\* is attached: every attached object is the one B.PDF's record refers to.
C34_MoveLeavesNoStaleSource ==
    (MovedAToB /\ Quiescent /\ nfail = 0)
        => /\ file_key("b") \in DOMAIN state.files
           /\ file_key("a") \notin DOMAIN state.files
           /\ attached = {state.files[file_key("b")].file_id}

\* C35: the two watcher modules are equivalent apart from modified events.
\* With files created, renamed and removed but never rewritten, and with
\* every outcome of the remote calls, each step of either module is a step of
\* the other from the same state: the same remote calls, timers, store and
\* state file follow.
C35_ModulesEquivalent == [][Program <=> vs_Program]_vars

\* the observer thread is inside schedule_upload for docs/sub/B.PDF, the
\* destination of a moved event
C35_Witness ==
    /\ pc[0] = "sarm"
    /\ loc[0].path = "b"
    /\ nops = 1
    /\ fs["a"].data = Absent /\ fs["a"].mtime = OldFile.mtime

\* the last n entries of a list, in their order
LastOf(h, n) ==
    LET m == IF Len(h) < n THEN Len(h) ELSE n
    IN  [j \in 1..m |-> h[Len(h) - m + j]]

\* the turn the next add_turn call for session sid adds
NextTurn(sid) == [role |-> NextRole(sid), content |-> NextContent(sid)]

\* C36: the session history bound. After every add_turn, get_session and
\* reset call, every session holds at most 2*MAX_TURNS = 40 entries; an
\* add_turn call leaves the session with the last 40 (or fewer) of its old
\* entries followed by the new one, in the order they were added; any other
\* call leaves the entries of a session as they are, except reset, which
\* leaves no session at all.
C36_SessionHistoryBound ==
    [][/\ \A sid \in DOMAIN SESSIONS' : Len(SESSIONS'[sid]) <= 2 * MAX_TURNS
       /\ \/ SESSIONS' = EmptyDict
          \/ \A sid \in SessionIds :
                LET old == History(SESSIONS, sid)
                    new == History(SESSIONS', sid)
                IN  /\ new = (IF sent'[sid] = sent[sid] + 1
                              THEN LastOf(Append(old, NextTurn(sid)), 2 * MAX_TURNS)
                              ELSE old)
                    /\ new # <<>> => new[Len(new)].content = sent'[sid]
                    /\ \A j \in 1..(Len(new) - 1) :
                          new[j + 1].content = new[j].content + 1]_vars

\* a session is at the bound and has lost its oldest turns: it holds turns
\* 4 to 43
C36_Witness ==
    \E sid \in DOMAIN SESSIONS :
        /\ Len(SESSIONS[sid]) = 2 * MAX_TURNS
        /\ SESSIONS[sid][1].content = 4
        /\ SESSIONS[sid][2 * MAX_TURNS].content = MaxMsgs

====
